---- MODULE Spec2Model ----
(***************************************************************************)
(* A model of the StashKu request builders DeleteRequest, PatchRequest and *)
(* PutRequest (src/requests).  One request instance is modelled; its class *)
(* is fixed at construction.  Every builder method is one action.  A call  *)
(* that throws is a step too: it records the error and whatever it wrote   *)
(* to the metadata before the throw.                                       *)
(***************************************************************************)
EXTENDS Integers, Sequences, FiniteSets, TLC

(***************************************************************************)
(* JavaScript values.  A value is a record [t, v, e]: t is the kind of     *)
(* value, v its printed form or the identity of an object, e the contents  *)
(* of a container (entries of a Map or object, elements of an array, the   *)
(* conditions of a Filter).                                                *)
(***************************************************************************)
NullV == [t |-> "null", v |-> "", e |-> <<>>]

Undef == [t |-> "undefined", v |-> "", e |-> <<>>]

Num(n) == [t |-> "number", v |-> n, e |-> <<>>]

Bool(b) == [t |-> "boolean", v |-> IF b THEN "true" ELSE "false", e |-> <<>>]

Str(s) == [t |-> "string", v |-> s, e |-> <<>>]

\* an entry of a Map or of an object: key k, value val
Entry(k, val) == [k |-> k, val |-> val]

\* a plain object with identity id and the own enumerable entries
Obj(id, entries) == [t |-> "object", v |-> id, e |-> entries]

\* an array of values
Arr(elems) == [t |-> "array", v |-> "", e |-> elems]

DateV == [t |-> "date", v |-> "d1", e |-> <<>>]

\* a Map holding the entries in insertion order
MapV(entries) == [t |-> "map", v |-> "", e |-> entries]

\* the Map map itself, after its entries were changed in place to entries
MapWith(map, entries) == [map EXCEPT !.e = entries]

\* a Filter instance with identity id holding the conditions conds
FilterV(id, conds) == [t |-> "filter", v |-> id, e |-> conds]

\* a function value (the body is named by id)
Fn(id) == [t |-> "function", v |-> id, e |-> <<>>]

\* a class (constructor) named name
Class(name) == [t |-> "class", v |-> name, e |-> <<>>]

\* the JavaScript typeof operator
TypeOf(x) ==
    CASE x.t \in {"null", "object", "array", "date", "map", "filter"} -> "object"
      [] x.t \in {"function", "class"} -> "function"
      [] OTHER -> x.t

\* Array.isArray
IsArray(x) == x.t = "array"

\* the JavaScript coercion to a boolean (!!x)
Truthy(x) ==
    CASE x.t \in {"null", "undefined"} -> FALSE
      [] x.t = "boolean" -> x.v = "true"
      [] x.t = "number" -> x.v \notin {"0", "NaN"}
      [] x.t = "string" -> x.v # ""
      [] OTHER -> TRUE

(***************************************************************************)
(* The outcome of a call: it returned, or it threw one of the errors.      *)
(***************************************************************************)
NoError == "none"

ArgumentError == "argument"

KeyError == "key"

CallbackError == "callback"

\* a TypeError of the runtime: Object.keys(undefined), a call on undefined
TypeError == "type"

VARIABLES
    kind,       \* the class of the request: "delete", "patch" or "put"
    metadata,   \* this.metadata: a record from property names to values
    call,       \* the most recent call: [op, args], args the argument list
    err,        \* the outcome of the most recent call
    ret,        \* what the most recent call returned: [t, j], t "this" for
                \* the request itself, "object" for the plain object j,
                \* "none" when it threw
    ncalls,     \* the number of calls made on the request so far
    peer,       \* a second request and the Map its caller holds: [kind,
                \* metadata, shared], shared the entries of that Map
    su,         \* the most recent call of a StringUtility function:
                \* [fn, input, arg, insensitive, result, err, done],
                \* done once the function has returned or thrown
    ep          \* the most recent call of an ExportProcessor method:
                \* [fn, args, result, err, done]

vars == <<kind, metadata, call, err, ret, ncalls, peer, su, ep>>

IsNull(x) == x.t = "null"

IsUndefined(x) == x.t = "undefined"

(***************************************************************************)
(* Model types the caller can bind, and ModelUtility.  The module          *)
(* modeling/model-utility.js is not among the sources: it is modelled from *)
(* the resource-name precedence and the primary-key rule of the design.    *)
(***************************************************************************)
TestModel == Class("TestModel")

BaseThemeModel == Class("BaseThemeModel")

ModelTypes == {TestModel, BaseThemeModel}

\* the static $stashku configuration of a model type
StashkuConfig(modelType) ==
    CASE modelType.v = "BaseThemeModel" ->
            [resource |-> Str("themes"), name |-> Str("Theme-API"),
             slug |-> Str("theme-api"), pluralName |-> Str("Themes-API"),
             pluralSlug |-> Str("themes-api")]
      [] OTHER ->
            [resource |-> Undef, name |-> Undef, slug |-> Undef,
             pluralName |-> Undef, pluralSlug |-> Undef]

\* the property names a model type declares with pk: true, in declaration order
PrimaryKeyProperties(modelType) ==
    IF modelType.v = "BaseThemeModel" THEN <<Str("ID")>> ELSE <<>>

\* the english plural of a class name
Pluralize(name) ==
    CASE name = "TestModel" -> "TestModels"
      [] name = "BaseThemeModel" -> "BaseThemeModels"
      [] OTHER -> name

ModelUtility_isValidType(modelType) == modelType.t = "class"

ModelUtility_resource(modelType) ==
    LET c == StashkuConfig(modelType) IN
    IF ~IsUndefined(c.resource) THEN c.resource
    ELSE IF ~IsUndefined(c.name) THEN c.name
    ELSE IF ~IsUndefined(c.slug) THEN c.slug
    ELSE IF ~IsUndefined(c.pluralName) THEN c.pluralName
    ELSE IF ~IsUndefined(c.pluralSlug) THEN c.pluralSlug
    ELSE Str(Pluralize(modelType.v))

ModelUtility_pk(modelType) == PrimaryKeyProperties(modelType)

(***************************************************************************)
(* this.metadata is a plain object: a function from the property names it  *)
(* has to their values.  Reading a property it lacks gives undefined and   *)
(* assigning one adds it.                                                  *)
(***************************************************************************)
Get(md, k) == IF k \in DOMAIN md THEN md[k] ELSE Undef

Set(md, k, val) == [x \in DOMAIN md \cup {k} |-> IF x = k THEN val ELSE md[x]]

(***************************************************************************)
(* The result of running a method body on the metadata md: the metadata it *)
(* leaves, the error it threw, if any, and the value it returned.  Every   *)
(* method ends with `return this`.                                         *)
(***************************************************************************)
This == [t |-> "this", j |-> [x \in {} |-> Undef]]

Nothing == [t |-> "none", j |-> [x \in {} |-> Undef]]

Return(md) == [md |-> md, err |-> NoError, ret |-> This]

Throw(md, error) == [md |-> md, err |-> error, ret |-> Nothing]

\* the method returned the plain object o, a function from names to values
ReturnObject(md, o) == [md |-> md, err |-> NoError, ret |-> [t |-> "object", j |-> o]]

\* the loop of a method threw error, or ended and the method returned this
Finish(md, error) == IF error = NoError THEN Return(md) ELSE Throw(md, error)

(***************************************************************************)
(* Map and array primitives.                                               *)
(***************************************************************************)
\* Map.prototype.has
MapHas(m, k) == \E i \in 1..Len(m) : m[i].k = k

\* Map.prototype.get (undefined when the key is absent)
MapGet(m, k) ==
    IF MapHas(m, k) THEN m[CHOOSE i \in 1..Len(m) : m[i].k = k].val ELSE Undef

\* Map.prototype.set: an existing key keeps its place, a new key goes last
MapSet(m, k, val) ==
    IF MapHas(m, k)
    THEN [i \in 1..Len(m) |-> IF m[i].k = k THEN Entry(k, val) ELSE m[i]]
    ELSE Append(m, Entry(k, val))

\* Map.prototype.delete
MapDelete(m, k) == SelectSeq(m, LAMBDA en : en.k # k)

\* Array.prototype.indexOf(x) >= 0, by strict equality
Includes(a, x) == \E i \in 1..Len(a) : a[i] = x

\* Array.prototype.flat(): one level of nested arrays is spliced in
RECURSIVE Flat(_)
Flat(a) ==
    IF a = <<>> THEN <<>>
    ELSE IF IsArray(Head(a)) THEN Head(a).e \o Flat(Tail(a))
    ELSE <<Head(a)>> \o Flat(Tail(a))

\* Array.prototype.flat(Infinity): every level of nesting is spliced in
RECURSIVE FlatInfinity(_)
FlatInfinity(a) ==
    IF a = <<>> THEN <<>>
    ELSE IF IsArray(Head(a)) THEN FlatInfinity(Head(a).e) \o FlatInfinity(Tail(a))
    ELSE <<Head(a)>> \o FlatInfinity(Tail(a))

\* Object.entries of a non-Map object
ObjectEntries(x) == IF x.t = "object" THEN x.e ELSE <<>>

\* Object.keys of a value that is neither null nor undefined
ObjectKeys(x) == {en.k.v : en \in {ObjectEntries(x)[i] : i \in 1..Len(ObjectEntries(x))}}

\* Object.assign(md, x): the own properties of x are assigned to md in order
RECURSIVE ObjectAssign(_, _)
ObjectAssign(md, entries) ==
    IF entries = <<>> THEN md
    ELSE ObjectAssign(Set(md, Head(entries).k.v, Head(entries).val), Tail(entries))

\* model?.name: the name of a class, undefined for null and undefined
NameOf(x) == IF x.t = "class" THEN Str(x.v) ELSE Undef

\* Objects.fromEntries (utilities/objects.js is not among the sources): the
\* plain object holding the entries of a Map, in the order of the Map
Objects_fromEntries(map) == Obj("fromEntries", map.e)

\* JSON.stringify leaves out a property whose value is undefined or a function
JSONOmits(x) == x.t \in {"undefined", "function", "class"}

\* what JSON.parse reads back from the text JSON.stringify writes for x:
\* primitives as they are, a Date as a string, an array with null in the
\* place of what is left out, an object as a new object without the
\* properties left out, a Map as an empty object
RECURSIVE JSONValue(_)
RECURSIVE JSONEntries(_)
JSONValue(x) ==
    CASE x.t = "array" ->
            Arr([i \in 1..Len(x.e) |->
                    IF JSONOmits(x.e[i]) THEN NullV ELSE JSONValue(x.e[i])])
      [] x.t = "object" -> Obj("parsed", JSONEntries(x.e))
      [] x.t = "map" -> Obj("parsed", <<>>)
      [] x.t = "filter" -> Obj("parsed", x.e)
      [] x.t = "date" -> Str(x.v)
      [] OTHER -> x

JSONEntries(entries) ==
    IF entries = <<>> THEN <<>>
    ELSE IF JSONOmits(Head(entries).val) THEN JSONEntries(Tail(entries))
    ELSE <<Entry(Head(entries).k, JSONValue(Head(entries).val))>>
             \o JSONEntries(Tail(entries))

\* JSON.parse(JSON.stringify(r)) of a request r whose toJSON() returned o
JSON_parse_stringify(o) ==
    [k \in {x \in DOMAIN o : ~JSONOmits(o[x])} |-> JSONValue(o[k])]

(***************************************************************************)
(* PatchRequest                                                            *)
(***************************************************************************)
PatchRequest_constructor ==
    [all |-> Bool(FALSE), template |-> NullV, where |-> NullV, to |-> NullV,
     count |-> Bool(FALSE), model |-> NullV, headers |-> NullV]

\* PatchRequest.to without the type check: any value is stored as the name
PatchRequest_to_unchecked(md, name) ==
    IF IsNull(name) THEN Return(Set(md, "to", NullV))
    ELSE Return(Set(md, "to", name))

PatchRequest_to(md, name) ==
    IF IsNull(name) THEN Return(Set(md, "to", NullV))
    ELSE IF TypeOf(name) # "string" THEN Throw(md, ArgumentError)
    ELSE Return(Set(md, "to", name))

\* PatchRequest.model that resets the name when the model is removed
PatchRequest_model_nullResetsName(md, modelType) ==
    IF ~IsNull(modelType) /\ ModelUtility_isValidType(modelType) = FALSE
    THEN Throw(md, ArgumentError)
    ELSE LET m1 == Set(md, "model", modelType)
             r == PatchRequest_to(m1, IF Truthy(modelType)
                                      THEN ModelUtility_resource(modelType)
                                      ELSE NullV)
         IN  IF r.err # NoError THEN r ELSE Return(r.md)

\* PatchRequest.model that stores the model type before it validates it
PatchRequest_model_assignsFirst(md, modelType) ==
    IF ~IsNull(modelType) /\ ModelUtility_isValidType(modelType) = FALSE
    THEN Throw(Set(md, "model", modelType), ArgumentError)
    ELSE LET m1 == Set(md, "model", modelType) IN
         IF Truthy(modelType)
         THEN LET r == PatchRequest_to(m1, ModelUtility_resource(modelType))
              IN  IF r.err # NoError THEN r ELSE Return(r.md)
         ELSE Return(m1)

\* PatchRequest.model that stores the model type and leaves the name alone
PatchRequest_model_keepsName(md, modelType) ==
    IF ~IsNull(modelType) /\ ModelUtility_isValidType(modelType) = FALSE
    THEN Throw(md, ArgumentError)
    ELSE Return(Set(md, "model", modelType))

PatchRequest_model(md, modelType) ==
    IF ~IsNull(modelType) /\ ModelUtility_isValidType(modelType) = FALSE
    THEN Throw(md, ArgumentError)
    ELSE LET m1 == Set(md, "model", modelType) IN
         IF Truthy(modelType)
         THEN LET r == PatchRequest_to(m1, ModelUtility_resource(modelType))
              IN  IF r.err # NoError THEN r ELSE Return(r.md)
         ELSE Return(m1)

\* PatchRequest.count without the default: a missing argument is coerced too
PatchRequest_count_noDefault(md, enabled) ==
    Return(Set(md, "count", Bool(Truthy(enabled))))

PatchRequest_count(md, enabled) ==
    IF TypeOf(enabled) = "undefined"
    THEN Return(Set(md, "count", Bool(TRUE)))
    ELSE Return(Set(md, "count", Bool(Truthy(enabled))))

\* args is the argument list of the call (arguments)
\* PatchRequest.all testing the parameter as count does, not arguments.length
PatchRequest_all_likeCount(md, args) ==
    LET enabled == IF Len(args) = 0 THEN Undef ELSE args[1] IN
    IF TypeOf(enabled) = "undefined"
    THEN Return(Set(md, "all", Bool(TRUE)))
    ELSE Return(Set(md, "all", Bool(Truthy(enabled))))

\* PatchRequest.all dropping the conditions when it turns all on
PatchRequest_all_dropsWhere(md, args) ==
    LET enabled == IF Len(args) = 0 THEN Bool(TRUE) ELSE args[1] IN
    IF Truthy(enabled)
    THEN Return(Set(Set(md, "all", Bool(TRUE)), "where", NullV))
    ELSE Return(Set(md, "all", Bool(FALSE)))

PatchRequest_all(md, args) ==
    LET enabled == IF Len(args) = 0 THEN Bool(TRUE) ELSE args[1] IN
    Return(Set(md, "all", Bool(Truthy(enabled))))

\* PatchRequest.template without the Array.isArray test
PatchRequest_template_allowsArrays(md, template) ==
    IF TypeOf(template) # "object" THEN Throw(md, ArgumentError)
    ELSE IF ~Truthy(template) THEN Return(Set(md, "template", NullV))
    ELSE Return(Set(md, "template", template))

PatchRequest_template(md, template) ==
    IF TypeOf(template) # "object" \/ IsArray(template)
    THEN Throw(md, ArgumentError)
    ELSE IF ~Truthy(template) THEN Return(Set(md, "template", NullV))
    ELSE Return(Set(md, "template", template))

\* a Filter identity no live reference holds: what new Filter() yields
NewFilterId(md) ==
    IF Get(md, "where").t = "filter" /\ Get(md, "where").v = "n1" THEN "n2" ELSE "n1"

\* the conditions a caller's callback leaves in the Filter it is handed
CallbackConditions(fn) ==
    IF fn.v = "cb_and_a"
    THEN <<[logic |-> "and", property |-> "a", op |-> "contains", value |-> "z"]>>
    ELSE <<>>

\* whether a caller's callback throws
CallbackThrows(fn) == fn.v = "cb_throw"

\* PatchRequest.where without the final throw: a value that is no filter
\* clears the conditions and the call returns
PatchRequest_where_lenient(md, conditions) ==
    IF IsNull(conditions) THEN Return(Set(md, "where", NullV))
    ELSE IF conditions.t = "filter" THEN Return(Set(md, "where", conditions))
    ELSE IF TypeOf(conditions) = "function"
    THEN LET f == FilterV(NewFilterId(md), <<>>) IN
         IF CallbackThrows(conditions)
         THEN Throw(Set(md, "where", f), CallbackError)
         ELSE Return(Set(md, "where", FilterV(f.v, CallbackConditions(conditions))))
    ELSE Return(Set(md, "where", NullV))

\* PatchRequest.where storing a copy of a given Filter instead of the instance
PatchRequest_where_copies(md, conditions) ==
    IF IsNull(conditions) THEN Return(Set(md, "where", NullV))
    ELSE IF conditions.t = "filter"
    THEN Return(Set(md, "where", FilterV(NewFilterId(md), conditions.e)))
    ELSE IF TypeOf(conditions) = "function"
    THEN LET f == FilterV(NewFilterId(md), <<>>) IN
         IF CallbackThrows(conditions)
         THEN Throw(Set(md, "where", f), CallbackError)
         ELSE Return(Set(md, "where", FilterV(f.v, CallbackConditions(conditions))))
    ELSE Throw(md, ArgumentError)

PatchRequest_where(md, conditions) ==
    IF IsNull(conditions) THEN Return(Set(md, "where", NullV))
    ELSE IF conditions.t = "filter" THEN Return(Set(md, "where", conditions))
    ELSE IF TypeOf(conditions) = "function"
    THEN LET f == FilterV(NewFilterId(md), <<>>) IN
         IF CallbackThrows(conditions)
         THEN Throw(Set(md, "where", f), CallbackError)
         ELSE Return(Set(md, "where", FilterV(f.v, CallbackConditions(conditions))))
    ELSE Throw(md, ArgumentError)

\* this.metadata is an object in every state the methods reach, so the
\* branch that recreates a missing metadata object is never taken
PatchRequest_clear(md) ==
    Return(Set(Set(Set(Set(md, "template", NullV), "where", NullV),
                       "to", NullV), "headers", NullV))

\* the headers loop skipping a key that is not a string instead of throwing
RECURSIVE HeadersLoop_skipsNonString(_, _, _)
HeadersLoop_skipsNonString(h, iterable, i) ==
    IF i > Len(iterable) THEN [h |-> h, err |-> NoError]
    ELSE LET k == iterable[i].k
             v == iterable[i].val
         IN  IF TypeOf(k) = "string"
             THEN IF IsNull(v) \/ TypeOf(v) = "undefined"
                  THEN HeadersLoop_skipsNonString(MapDelete(h, k), iterable, i + 1)
                  ELSE HeadersLoop_skipsNonString(MapSet(h, k, v), iterable, i + 1)
             ELSE HeadersLoop_skipsNonString(h, iterable, i + 1)

\* the headers loop storing a null or undefined value instead of deleting
RECURSIVE HeadersLoop_storesNull(_, _, _)
HeadersLoop_storesNull(h, iterable, i) ==
    IF i > Len(iterable) THEN [h |-> h, err |-> NoError]
    ELSE LET k == iterable[i].k
             v == iterable[i].val
         IN  IF ~IsNull(k) /\ TypeOf(k) # "undefined"
             THEN IF TypeOf(k) # "string" THEN [h |-> h, err |-> KeyError]
                  ELSE HeadersLoop_storesNull(MapSet(h, k, v), iterable, i + 1)
             ELSE HeadersLoop_storesNull(h, iterable, i + 1)

\* the for loop of headers over iterable[i..], on the header entries h
RECURSIVE HeadersLoop(_, _, _)
HeadersLoop(h, iterable, i) ==
    IF i > Len(iterable) THEN [h |-> h, err |-> NoError]
    ELSE LET k == iterable[i].k
             v == iterable[i].val
         IN  IF ~IsNull(k) /\ TypeOf(k) # "undefined"
             THEN IF TypeOf(k) # "string" THEN [h |-> h, err |-> KeyError]
                  ELSE IF IsNull(v) \/ TypeOf(v) = "undefined"
                       THEN HeadersLoop(MapDelete(h, k), iterable, i + 1)
                       ELSE HeadersLoop(MapSet(h, k, v), iterable, i + 1)
             ELSE HeadersLoop(h, iterable, i + 1)

\* PatchRequest.headers replacing the header map instead of merging into it
PatchRequest_headers_replaces(md, dictionary) ==
    LET m1 == IF ~Truthy(Get(md, "headers")) THEN Set(md, "headers", MapV(<<>>))
              ELSE md
    IN  IF IsNull(dictionary) THEN Return(Set(m1, "headers", MapV(<<>>)))
        ELSE IF dictionary.t = "map" \/ TypeOf(dictionary) = "object"
        THEN LET iterable == IF dictionary.t # "map"
                             THEN ObjectEntries(dictionary)
                             ELSE dictionary.e
                 r == HeadersLoop(<<>>, iterable, 1)
             IN  Finish(Set(m1, "headers", MapV(r.h)), r.err)
        ELSE Throw(m1, ArgumentError)

\* PatchRequest.headers dropping the header map on null, as clear does
PatchRequest_headers_dropsMap(md, dictionary) ==
    LET m1 == IF ~Truthy(Get(md, "headers")) THEN Set(md, "headers", MapV(<<>>))
              ELSE md
    IN  IF IsNull(dictionary) THEN Return(Set(m1, "headers", NullV))
        ELSE IF dictionary.t = "map" \/ TypeOf(dictionary) = "object"
        THEN LET iterable == IF dictionary.t # "map"
                             THEN ObjectEntries(dictionary)
                             ELSE dictionary.e
                 r == HeadersLoop(m1.headers.e, iterable, 1)
             IN  Finish(Set(m1, "headers", MapV(r.h)), r.err)
        ELSE Throw(m1, ArgumentError)

\* PatchRequest.headers comparing with == null: undefined clears like null
PatchRequest_headers_looseNull(md, dictionary) ==
    LET m1 == IF ~Truthy(Get(md, "headers")) THEN Set(md, "headers", MapV(<<>>))
              ELSE md
    IN  IF IsNull(dictionary) \/ IsUndefined(dictionary)
        THEN Return(Set(m1, "headers", MapV(<<>>)))
        ELSE IF dictionary.t = "map" \/ TypeOf(dictionary) = "object"
        THEN LET iterable == IF dictionary.t # "map"
                             THEN ObjectEntries(dictionary)
                             ELSE dictionary.e
                 r == HeadersLoop(m1.headers.e, iterable, 1)
             IN  Finish(Set(m1, "headers", MapV(r.h)), r.err)
        ELSE Throw(m1, ArgumentError)

\* PatchRequest.headers taking a Map it is given as its header map while
\* it has none
PatchRequest_headers_adoptsMap(md, dictionary) ==
    IF ~Truthy(Get(md, "headers")) /\ dictionary.t = "map"
    THEN LET r == HeadersLoop(<<>>, dictionary.e, 1)
         IN  Finish(Set(md, "headers", MapWith(dictionary, r.h)), r.err)
    ELSE LET m1 == IF ~Truthy(Get(md, "headers"))
                   THEN Set(md, "headers", MapV(<<>>))
                   ELSE md
         IN  IF IsNull(dictionary)
             THEN Return(Set(m1, "headers", MapWith(m1.headers, <<>>)))
             ELSE IF dictionary.t = "map" \/ TypeOf(dictionary) = "object"
             THEN LET iterable == IF dictionary.t # "map"
                                  THEN ObjectEntries(dictionary)
                                  ELSE dictionary.e
                      r == HeadersLoop(m1.headers.e, iterable, 1)
                  IN  Finish(Set(m1, "headers", MapWith(m1.headers, r.h)), r.err)
             ELSE Throw(m1, ArgumentError)

PatchRequest_headers(md, dictionary) ==
    LET m1 == IF ~Truthy(Get(md, "headers")) THEN Set(md, "headers", MapV(<<>>))
              ELSE md
    IN  IF IsNull(dictionary)
        THEN Return(Set(m1, "headers", MapWith(m1.headers, <<>>)))
        ELSE IF dictionary.t = "map" \/ TypeOf(dictionary) = "object"
        THEN LET iterable == IF dictionary.t # "map"
                             THEN ObjectEntries(dictionary)
                             ELSE dictionary.e
                 r == HeadersLoop(m1.headers.e, iterable, 1)
             IN  Finish(Set(m1, "headers", MapWith(m1.headers, r.h)), r.err)
        ELSE Throw(m1, ArgumentError)

PatchRequest_STANDARD_METADATA == {"template", "where", "to"}

\* PatchRequest.meta returning the merged metadata object, not the request
PatchRequest_meta_returnsMetadata(md, settings) ==
    IF IsNull(settings)
    THEN Return([k \in DOMAIN md \cap PatchRequest_STANDARD_METADATA |-> md[k]])
    ELSE IF IsUndefined(settings) THEN Throw(md, TypeError)
    ELSE IF ObjectKeys(settings) \cap PatchRequest_STANDARD_METADATA # {}
    THEN Throw(md, ArgumentError)
    ELSE ReturnObject(ObjectAssign(md, ObjectEntries(settings)),
                      ObjectAssign(md, ObjectEntries(settings)))

PatchRequest_meta(md, settings) ==
    IF IsNull(settings)
    THEN Return([k \in DOMAIN md \cap PatchRequest_STANDARD_METADATA |-> md[k]])
    ELSE IF IsUndefined(settings) THEN Throw(md, TypeError)
    ELSE IF ObjectKeys(settings) \cap PatchRequest_STANDARD_METADATA # {}
    THEN Throw(md, ArgumentError)
    ELSE Return(ObjectAssign(md, ObjectEntries(settings)))

\* PatchRequest.toJSON leaving the model type itself in the copy
PatchRequest_toJSON_dumpsModel(md) ==
    LET metaClone == md
        c1 == IF Truthy(Get(md, "headers"))
              THEN Set(metaClone, "headers", Objects_fromEntries(Get(md, "headers")))
              ELSE metaClone
    IN  ReturnObject(md, c1)

PatchRequest_toJSON(md) ==
    LET metaClone == md
        c1 == IF Truthy(Get(md, "headers"))
              THEN Set(metaClone, "headers", Objects_fromEntries(Get(md, "headers")))
              ELSE metaClone
    IN  ReturnObject(md, Set(c1, "model", NameOf(Get(md, "model"))))

(***************************************************************************)
(* DeleteRequest                                                           *)
(***************************************************************************)
DeleteRequest_constructor ==
    [all |-> Bool(FALSE), where |-> NullV, from |-> NullV,
     count |-> Bool(FALSE), model |-> NullV, headers |-> NullV]

DeleteRequest_from(md, name) ==
    IF ~IsNull(name) /\ TypeOf(name) # "string" THEN Throw(md, ArgumentError)
    ELSE Return(Set(md, "from", name))

DeleteRequest_model(md, modelType) ==
    IF ~IsNull(modelType) /\ ModelUtility_isValidType(modelType) = FALSE
    THEN Throw(md, ArgumentError)
    ELSE LET m1 == Set(md, "model", modelType) IN
         IF ~IsNull(modelType)
         THEN LET r == DeleteRequest_from(m1, ModelUtility_resource(modelType))
              IN  IF r.err # NoError THEN r ELSE Return(r.md)
         ELSE Return(m1)

\* the same text as PatchRequest.count
DeleteRequest_count(md, enabled) == PatchRequest_count(md, enabled)

\* the same text as PatchRequest.all
DeleteRequest_all(md, args) == PatchRequest_all(md, args)

\* the same text as PatchRequest.where
DeleteRequest_where(md, conditions) == PatchRequest_where(md, conditions)

DeleteRequest_clear(md) ==
    Return(Set(Set(Set(Set(md, "all", Bool(FALSE)), "where", NullV),
                       "from", NullV), "headers", NullV))

\* the same text as PatchRequest.headers
DeleteRequest_headers(md, dictionary) == PatchRequest_headers(md, dictionary)

DeleteRequest_STANDARD_METADATA == {"all", "where", "from"}

DeleteRequest_meta(md, settings) ==
    IF IsNull(settings)
    THEN Return([k \in DOMAIN md \cap DeleteRequest_STANDARD_METADATA |-> md[k]])
    ELSE IF IsUndefined(settings) THEN Throw(md, TypeError)
    ELSE IF ObjectKeys(settings) \cap DeleteRequest_STANDARD_METADATA # {}
    THEN Throw(md, ArgumentError)
    ELSE Return(ObjectAssign(md, ObjectEntries(settings)))

DeleteRequest_toJSON(md) ==
    LET metaClone == md
        c1 == IF Truthy(Get(md, "headers"))
              THEN Set(metaClone, "headers", Objects_fromEntries(Get(md, "headers")))
              ELSE metaClone
        c2 == Set(c1, "model", NameOf(Get(md, "model")))
    IN  ReturnObject(md, Set(c2, "method", Str("delete")))

(***************************************************************************)
(* PutRequest                                                              *)
(***************************************************************************)
\* the loop of pk pushing every string it has not yet, the empty one too
RECURSIVE PkLoop_keepsEmpty(_, _, _)
PkLoop_keepsEmpty(pk, primaryKeys, i) ==
    IF i > Len(primaryKeys) THEN [a |-> pk, err |-> NoError]
    ELSE LET k == primaryKeys[i] IN
         IF ~IsNull(k) /\ TypeOf(k) # "string"
         THEN [a |-> pk, err |-> ArgumentError]
         ELSE IF ~IsNull(k) /\ ~Includes(pk, k)
              THEN PkLoop_keepsEmpty(Append(pk, k), primaryKeys, i + 1)
              ELSE PkLoop_keepsEmpty(pk, primaryKeys, i + 1)

\* the for loop of pk over primaryKeys[i..], on the list pk
RECURSIVE PkLoop(_, _, _)
PkLoop(pk, primaryKeys, i) ==
    IF i > Len(primaryKeys) THEN [a |-> pk, err |-> NoError]
    ELSE LET k == primaryKeys[i] IN
         IF ~IsNull(k) /\ TypeOf(k) # "string"
         THEN [a |-> pk, err |-> ArgumentError]
         ELSE IF Truthy(k) /\ ~Includes(pk, k)
              THEN PkLoop(Append(pk, k), primaryKeys, i + 1)
              ELSE PkLoop(pk, primaryKeys, i + 1)

\* primaryKeys is the rest parameter: the list of the arguments, always an
\* array, so !primaryKeys is false
PutRequest_pk(md, primaryKeys) ==
    LET m1 == IF IsArray(Get(md, "pk")) = FALSE THEN Set(md, "pk", Arr(<<>>))
              ELSE md
    IN  IF Len(primaryKeys) = 1 /\ IsNull(primaryKeys[1])
        THEN Return(Set(m1, "pk", Arr(<<>>)))
        ELSE LET r == PkLoop(m1.pk.e, Flat(primaryKeys), 1) IN
             Finish(Set(m1, "pk", Arr(r.a)), r.err)

\* the loop of objects pushing every object, without the indexOf test
RECURSIVE ObjectsLoop_noDedupe(_, _, _)
ObjectsLoop_noDedupe(list, objects, i) ==
    IF i > Len(objects) THEN [a |-> list, err |-> NoError]
    ELSE LET o == objects[i] IN
         IF ~IsNull(o) /\ TypeOf(o) # "undefined"
         THEN IF TypeOf(o) # "object" THEN [a |-> list, err |-> ArgumentError]
              ELSE ObjectsLoop_noDedupe(Append(list, o), objects, i + 1)
         ELSE ObjectsLoop_noDedupe(list, objects, i + 1)

\* the for loop of objects over objects[i..], on the list list
RECURSIVE ObjectsLoop(_, _, _)
ObjectsLoop(list, objects, i) ==
    IF i > Len(objects) THEN [a |-> list, err |-> NoError]
    ELSE LET o == objects[i] IN
         IF ~IsNull(o) /\ TypeOf(o) # "undefined"
         THEN IF TypeOf(o) # "object" THEN [a |-> list, err |-> ArgumentError]
              ELSE IF ~Includes(list, o)
                   THEN ObjectsLoop(Append(list, o), objects, i + 1)
                   ELSE ObjectsLoop(list, objects, i + 1)
         ELSE ObjectsLoop(list, objects, i + 1)

\* objects is the rest parameter: the list of the arguments, always an
\* array, so !objects is false
PutRequest_objects(md, objects) ==
    LET m1 == IF IsArray(Get(md, "objects")) = FALSE
              THEN Set(md, "objects", Arr(<<>>))
              ELSE md
    IN  IF Len(objects) = 1 /\ IsNull(objects[1])
        THEN Return(Set(m1, "objects", Arr(<<>>)))
        ELSE LET r == ObjectsLoop(m1.objects.e, FlatInfinity(objects), 1) IN
             Finish(Set(m1, "objects", Arr(r.a)), r.err)

\* new PutRequest() with no arguments: objects() is called with no objects
PutRequest_constructor ==
    PutRequest_objects(
        [pk |-> Arr(<<>>), objects |-> Arr(<<>>), to |-> NullV,
         count |-> Bool(FALSE), model |-> NullV, headers |-> NullV],
        <<>>).md

PutRequest_to(md, name) ==
    IF ~IsNull(name) /\ TypeOf(name) # "string" THEN Throw(md, ArgumentError)
    ELSE Return(Set(md, "to", name))

\* PutRequest.model without the pk(null) of the chain: the primary keys of
\* the model are added to those already set
PutRequest_model_keepsPk(md, modelType) ==
    IF ~IsNull(modelType) /\ ModelUtility_isValidType(modelType) = FALSE
    THEN Throw(md, ArgumentError)
    ELSE LET m1 == Set(md, "model", modelType) IN
         IF Truthy(modelType)
         THEN LET r1 == PutRequest_to(m1, ModelUtility_resource(modelType))
                  r3 == PutRequest_pk(r1.md, ModelUtility_pk(modelType))
              IN  IF r1.err # NoError THEN r1
                  ELSE IF r3.err # NoError THEN r3
                  ELSE Return(r3.md)
         ELSE Return(m1)

PutRequest_model(md, modelType) ==
    IF ~IsNull(modelType) /\ ModelUtility_isValidType(modelType) = FALSE
    THEN Throw(md, ArgumentError)
    ELSE LET m1 == Set(md, "model", modelType) IN
         IF Truthy(modelType)
         THEN LET r1 == PutRequest_to(m1, ModelUtility_resource(modelType))
                  r2 == PutRequest_pk(r1.md, <<NullV>>)
                  r3 == PutRequest_pk(r2.md, ModelUtility_pk(modelType))
              IN  IF r1.err # NoError THEN r1
                  ELSE IF r1.ret # This THEN Throw(r1.md, TypeError)
                  ELSE IF r2.err # NoError THEN r2
                  ELSE IF r2.ret # This THEN Throw(r2.md, TypeError)
                  ELSE IF r3.err # NoError THEN r3
                  ELSE Return(r3.md)
         ELSE Return(m1)

\* the same text as PatchRequest.count
PutRequest_count(md, enabled) == PatchRequest_count(md, enabled)

PutRequest_clear(md) ==
    Return(Set(Set(Set(Set(md, "pk", Arr(<<>>)), "objects", Arr(<<>>)),
                       "to", NullV), "headers", NullV))

\* the same text as PatchRequest.headers
PutRequest_headers(md, dictionary) == PatchRequest_headers(md, dictionary)

PutRequest_STANDARD_METADATA == {"pk", "objects", "to", "count", "model"}

PutRequest_meta(md, settings) ==
    IF IsNull(settings)
    THEN Return([k \in DOMAIN md \cap PutRequest_STANDARD_METADATA |-> md[k]])
    ELSE IF IsUndefined(settings) THEN Throw(md, TypeError)
    ELSE IF ObjectKeys(settings) \cap PutRequest_STANDARD_METADATA # {}
    THEN Throw(md, ArgumentError)
    ELSE Return(ObjectAssign(md, ObjectEntries(settings)))

PutRequest_toJSON(md) ==
    LET metaClone == md
        c1 == IF Truthy(Get(md, "headers"))
              THEN Set(metaClone, "headers", Objects_fromEntries(Get(md, "headers")))
              ELSE metaClone
        c2 == Set(c1, "model", NameOf(Get(md, "model")))
    IN  ReturnObject(md, Set(c2, "method", Str("put")))

(***************************************************************************)
(* The arguments callers pass.  An argument list is a sequence of values;  *)
(* a parameter with no argument is undefined.                              *)
(***************************************************************************)
\* the largest number of entries of a dictionary passed to headers
MaxEntries == 2

\* the largest number of arguments passed to pk and to objects
MaxArgs == 1

\* the largest number of calls made on the request
MaxCalls == 2

\* the largest number of calls made on the two requests that share the
\* Map of the caller
MaxSharedCalls == 3

Arg(args, i) == IF i <= Len(args) THEN args[i] ELSE Undef

\* the argument lists with no argument or one argument out of S
OneArg(S) == {<<>>} \cup {<<x>> : x \in S}

\* the argument lists with one argument out of S, for the methods that
\* only read their parameter: a call with no argument runs as with undefined
Given(S) == {<<x>> : x \in S}

SeqsUpTo(S, n) == UNION {[1..m -> S] : m \in 0..n}

\* values that are neither null, a string, a Filter, a function nor a class
Object1 == Obj("o1", <<Entry(Str("a"), Num("123"))>>)

Object2 == Obj("o2", <<>>)

NameArgs ==
    {NullV, Str("someresource"), Num("1312312"), Bool(TRUE), DateV, Object2,
     Arr(<<Num("1"), Num("2")>>), Undef}

ModelArgs ==
    {NullV, Undef, Num("123"), Bool(TRUE), Str("abc")} \cup ModelTypes

CountArgs ==
    {Undef, NullV, Bool(TRUE), Bool(FALSE), Num("0"), Str(""), Str("abc")}

AllArgs == {Undef, Bool(TRUE), Bool(FALSE), Num("0"), Num("1")}

TemplateArgs ==
    {NullV, Object1, Num("1312312"), Bool(TRUE), Str("abc"),
     Arr(<<Num("1"), Num("2")>>), Undef}

\* two Filter instances the caller built beforehand
Filter1 ==
    FilterV("f1", <<[logic |-> "and", property |-> "a", op |-> "contains",
                     value |-> "z"]>>)

Filter2 ==
    FilterV("f2", <<[logic |-> "and", property |-> "b", op |-> "contains",
                     value |-> "b"]>>)

WhereArgs ==
    {NullV, Filter1, Filter2, Fn("cb_and_a"), Fn("cb_throw"), Num("1312312"),
     Bool(TRUE), Str("{a} == 55"), DateV, Object2, Arr(<<Num("1"), Num("2")>>),
     Undef}

\* the entries dictionaries are made of: a Map takes any value as a key,
\* an object has string keys only
ObjectEntrySet ==
    {Entry(Str("a"), Num("1")), Entry(Str("a"), Str("hi")),
     Entry(Str("a"), NullV), Entry(Str("b"), Num("1")),
     Entry(Str("b"), Undef)}

MapEntrySet ==
    {Entry(Str("a"), Num("1")), Entry(Num("123"), Bool(TRUE)),
     Entry(NullV, Bool(TRUE)), Entry(Undef, Bool(TRUE))}

\* the sequences of at most MaxEntries entries out of S with distinct keys
EntryLists(S) ==
    {l \in SeqsUpTo(S, MaxEntries) :
        \A i, j \in 1..Len(l) : i # j => l[i].k # l[j].k}

HeadersArgs ==
    {NullV, Undef, Num("244"), Bool(TRUE), Str("abc"), DateV}
    \cup {Obj("dict", l) : l \in EntryLists(ObjectEntrySet)}
    \cup {MapV(l) : l \in EntryLists(MapEntrySet)}

PkArgs ==
    SeqsUpTo({Str("ID"), NullV, Num("7"), Arr(<<Str("Name"), Str("")>>)},
             MaxArgs)

ObjectsArgs ==
    SeqsUpTo({Object1, NullV, Num("5"),
              Arr(<<Object2, Undef, Arr(<<Object1>>)>>)}, MaxArgs)

\* custom engine settings, and an object naming standard properties
Settings1 == Obj("m1", <<Entry(Str("engine"), Str("fast"))>>)

Settings2 == Obj("m2", <<Entry(Str("to"), Str("abc")), Entry(Str("from"), Str("abc"))>>)

MetaArgs == {NullV, Settings1, Settings2}

(***************************************************************************)
(* The state machine: construction, then any builder call in any order.    *)
(***************************************************************************)
Kinds == {"delete", "patch", "put"}

\* no second request is around
NoPeer == [kind |-> "none", metadata |-> [x \in {} |-> Undef], shared |-> <<>>]

\* no ExportProcessor method was called
NoExportCall ==
    [fn |-> "none", args |-> <<>>, result |-> Undef, err |-> NoError,
     done |-> FALSE]

\* no StringUtility function was called
NoStringCall ==
    [fn |-> "none", input |-> Undef, arg |-> Undef, insensitive |-> FALSE,
     result |-> Undef, err |-> NoError, done |-> FALSE]

Init ==
    /\ kind \in Kinds
    /\ metadata = CASE kind = "delete" -> DeleteRequest_constructor
                    [] kind = "patch" -> PatchRequest_constructor
                    [] kind = "put" -> PutRequest_constructor
    /\ call = [op |-> "new", args |-> <<>>]
    /\ err = NoError
    /\ ret = This
    /\ ncalls = 0
    /\ peer = NoPeer
    /\ su = NoStringCall
    /\ ep = NoExportCall

\* the call op(args) ran and left the result r
Do(op, args, r) ==
    /\ ncalls < MaxCalls
    /\ ncalls' = ncalls + 1
    /\ metadata' = r.md
    /\ err' = r.err
    /\ ret' = r.ret
    /\ call' = [op |-> op, args |-> args]
    /\ UNCHANGED <<kind, peer, su, ep>>

Patch_model ==
    \E args \in OneArg(ModelArgs) :
        kind = "patch" /\ Do("model", args, PatchRequest_model(metadata, Arg(args, 1)))

Patch_count ==
    \E args \in OneArg(CountArgs) :
        kind = "patch" /\ Do("count", args, PatchRequest_count(metadata, Arg(args, 1)))

Patch_all ==
    \E args \in OneArg(AllArgs) :
        kind = "patch" /\ Do("all", args, PatchRequest_all(metadata, args))

Patch_template ==
    \E args \in Given(TemplateArgs) :
        kind = "patch" /\ Do("template", args, PatchRequest_template(metadata, Arg(args, 1)))

Patch_where ==
    \E args \in Given(WhereArgs) :
        kind = "patch" /\ Do("where", args, PatchRequest_where(metadata, Arg(args, 1)))

Patch_to ==
    \E args \in Given(NameArgs) :
        kind = "patch" /\ Do("to", args, PatchRequest_to(metadata, Arg(args, 1)))

Patch_clear ==
    kind = "patch" /\ Do("clear", <<>>, PatchRequest_clear(metadata))

Patch_headers ==
    \E args \in OneArg(HeadersArgs) :
        kind = "patch" /\ Do("headers", args, PatchRequest_headers(metadata, Arg(args, 1)))

Patch_meta ==
    \E args \in Given(MetaArgs) :
        kind = "patch" /\ Do("meta", args, PatchRequest_meta(metadata, Arg(args, 1)))

Patch_toJSON ==
    kind = "patch" /\ Do("toJSON", <<>>, PatchRequest_toJSON(metadata))

Delete_model ==
    \E args \in OneArg(ModelArgs) :
        kind = "delete" /\ Do("model", args, DeleteRequest_model(metadata, Arg(args, 1)))

Delete_count ==
    \E args \in OneArg(CountArgs) :
        kind = "delete" /\ Do("count", args, DeleteRequest_count(metadata, Arg(args, 1)))

Delete_all ==
    \E args \in OneArg(AllArgs) :
        kind = "delete" /\ Do("all", args, DeleteRequest_all(metadata, args))

Delete_where ==
    \E args \in Given(WhereArgs) :
        kind = "delete" /\ Do("where", args, DeleteRequest_where(metadata, Arg(args, 1)))

Delete_from ==
    \E args \in Given(NameArgs) :
        kind = "delete" /\ Do("from", args, DeleteRequest_from(metadata, Arg(args, 1)))

Delete_clear ==
    kind = "delete" /\ Do("clear", <<>>, DeleteRequest_clear(metadata))

Delete_headers ==
    \E args \in OneArg(HeadersArgs) :
        kind = "delete" /\ Do("headers", args, DeleteRequest_headers(metadata, Arg(args, 1)))

Delete_meta ==
    \E args \in Given(MetaArgs) :
        kind = "delete" /\ Do("meta", args, DeleteRequest_meta(metadata, Arg(args, 1)))

Delete_toJSON ==
    kind = "delete" /\ Do("toJSON", <<>>, DeleteRequest_toJSON(metadata))

Put_model ==
    \E args \in OneArg(ModelArgs) :
        kind = "put" /\ Do("model", args, PutRequest_model(metadata, Arg(args, 1)))

Put_count ==
    \E args \in OneArg(CountArgs) :
        kind = "put" /\ Do("count", args, PutRequest_count(metadata, Arg(args, 1)))

Put_pk ==
    \E args \in PkArgs :
        kind = "put" /\ Do("pk", args, PutRequest_pk(metadata, args))

Put_objects ==
    \E args \in ObjectsArgs :
        kind = "put" /\ Do("objects", args, PutRequest_objects(metadata, args))

Put_to ==
    \E args \in Given(NameArgs) :
        kind = "put" /\ Do("to", args, PutRequest_to(metadata, Arg(args, 1)))

Put_clear ==
    kind = "put" /\ Do("clear", <<>>, PutRequest_clear(metadata))

Put_headers ==
    \E args \in OneArg(HeadersArgs) :
        kind = "put" /\ Do("headers", args, PutRequest_headers(metadata, Arg(args, 1)))

Put_meta ==
    \E args \in Given(MetaArgs) :
        kind = "put" /\ Do("meta", args, PutRequest_meta(metadata, Arg(args, 1)))

Put_toJSON ==
    kind = "put" /\ Do("toJSON", <<>>, PutRequest_toJSON(metadata))

Next ==
    \/ Patch_model \/ Patch_count \/ Patch_all \/ Patch_template
    \/ Patch_where \/ Patch_to \/ Patch_clear \/ Patch_headers
    \/ Delete_model \/ Delete_count \/ Delete_all \/ Delete_where
    \/ Delete_from \/ Delete_clear \/ Delete_headers
    \/ Put_model \/ Put_count \/ Put_pk \/ Put_objects \/ Put_to
    \/ Put_clear \/ Put_headers
    \/ Patch_meta \/ Delete_meta \/ Put_meta
    \/ Patch_toJSON \/ Delete_toJSON \/ Put_toJSON

Spec == Init /\ [][Next]_vars

(***************************************************************************)
(* Two requests side by side.  Their caller holds one Map and may hand it  *)
(* to either request inside the argument of meta(); a Map is an object, so *)
(* a request that stores it holds the caller's Map itself.                 *)
(***************************************************************************)
\* the metadata a request of class k has after construction
NewRequest(k) ==
    CASE k = "delete" -> DeleteRequest_constructor
      [] k = "patch" -> PatchRequest_constructor
      [] k = "put" -> PutRequest_constructor

\* the method op of a request of class k, run on the metadata md
Invoke(k, md, op, args) ==
    CASE op = "headers" -> PatchRequest_headers(md, Arg(args, 1))
      [] op = "clear" /\ k = "delete" -> DeleteRequest_clear(md)
      [] op = "clear" /\ k = "patch" -> PatchRequest_clear(md)
      [] op = "clear" /\ k = "put" -> PutRequest_clear(md)
      [] op = "meta" /\ k = "delete" -> DeleteRequest_meta(md, Arg(args, 1))
      [] op = "meta" /\ k = "patch" -> PatchRequest_meta(md, Arg(args, 1))
      [] op = "meta" /\ k = "put" -> PutRequest_meta(md, Arg(args, 1))

\* the metadata md of a request after the Map map was changed in place:
\* every property of md that is this very Map shows the change
Alias(md, map) ==
    [k \in DOMAIN md |->
        IF md[k].t = "map" /\ md[k].v = map.v THEN map ELSE md[k]]

InitShared ==
    /\ kind \in Kinds
    /\ metadata = NewRequest(kind)
    /\ peer \in {[kind |-> k, metadata |-> NewRequest(k), shared |-> <<>>] :
                    k \in Kinds}
    /\ call = [op |-> "new", args |-> <<>>, on |-> "both"]
    /\ err = NoError
    /\ ret = This
    /\ ncalls = 0
    /\ su = NoStringCall
    /\ ep = NoExportCall

\* the call op(args) ran on this request ("self") or on its peer
DoOn(on, op, args) ==
    LET r == IF on = "self" THEN Invoke(kind, metadata, op, args)
             ELSE Invoke(peer.kind, peer.metadata, op, args)
        h == Get(r.md, "headers")
        held == h.t = "map" /\ h.v = "shared"
    IN  /\ ncalls' = ncalls + 1
        /\ err' = r.err
        /\ ret' = r.ret
        /\ call' = [op |-> op, args |-> args, on |-> on]
        /\ metadata' = IF on = "self" THEN r.md
                       ELSE IF held THEN Alias(metadata, h) ELSE metadata
        /\ peer' = [kind |-> peer.kind,
                    metadata |-> IF on = "peer" THEN r.md
                                 ELSE IF held THEN Alias(peer.metadata, h)
                                 ELSE peer.metadata,
                    shared |-> IF held THEN h.e ELSE peer.shared]
        /\ UNCHANGED <<kind, su, ep>>

\* headers(null), headers(244), headers({a: 1}) and headers(map) with map
\* the Map the caller holds, as it is now
Shared_headers ==
    /\ ncalls < MaxSharedCalls
    /\ LET map == [t |-> "map", v |-> "shared", e |-> peer.shared]
       IN  \E on \in {"self", "peer"},
              args \in Given({NullV, Num("244"), map,
                              Obj("dict", <<Entry(Str("a"), Num("1"))>>)}) :
              DoOn(on, "headers", args)

\* meta(null), meta({headers: map}) with map the Map the caller holds, as
\* it is now, and meta({count: 'yes'})
Shared_meta ==
    /\ ncalls < MaxSharedCalls
    /\ LET map == [t |-> "map", v |-> "shared", e |-> peer.shared]
       IN  \E on \in {"self", "peer"},
              args \in Given({NullV,
                              Obj("m3", <<Entry(Str("headers"), map)>>),
                              Obj("m4", <<Entry(Str("count"), Str("yes"))>>)}) :
              DoOn(on, "meta", args)

Shared_clear ==
    /\ ncalls < MaxSharedCalls
    /\ \E on \in {"self", "peer"} : DoOn(on, "clear", <<>>)

\* the caller changes its own Map: myMap.set('b', 'hi')
Caller_set ==
    /\ peer.kind \in Kinds
    /\ LET map == [t |-> "map", v |-> "shared",
                   e |-> MapSet(peer.shared, Str("b"), Str("hi"))]
       IN  /\ metadata' = Alias(metadata, map)
           /\ peer' = [kind |-> peer.kind,
                       metadata |-> Alias(peer.metadata, map),
                       shared |-> map.e]
    /\ UNCHANGED <<kind, call, err, ret, ncalls, su, ep>>

NextShared == Shared_headers \/ Shared_meta \/ Shared_clear \/ Caller_set

SpecShared == InitShared /\ [][NextShared]_vars

(***************************************************************************)
(* Construction with arguments, next to the builder calls the arguments    *)
(* stand for: the request is built by new PatchRequest(template) or by     *)
(* new PutRequest(pk, ...objects), and peer is a request built by          *)
(* new PatchRequest().template(template) or by                             *)
(* new PutRequest().pk(pk).objects(...objects), with the error it threw.   *)
(***************************************************************************)
PatchRequest_new(template) ==
    IF Truthy(template)
    THEN PatchRequest_template(PatchRequest_constructor, template)
    ELSE Return(PatchRequest_constructor)

\* PutRequest_constructor is the metadata literal of the constructor
PutRequest_new(pk, objects) ==
    LET r == IF IsArray(pk) THEN PutRequest_pk(PutRequest_constructor, pk.e)
             ELSE Return(PutRequest_constructor)
    IN  IF r.err # NoError THEN r ELSE PutRequest_objects(r.md, objects)

\* the arguments of the constructor call about to be made
InitNew ==
    /\ kind \in {"patch", "put"}
    /\ metadata = NewRequest(kind)
    /\ \/ /\ kind = "patch"
          /\ \E t \in TemplateArgs \cup {Num("0"), Bool(FALSE), Str("")} :
                call = [op |-> "new", args |-> <<t>>]
       \/ /\ kind = "put"
          /\ \E pk \in {Undef, NullV, Str("ID"), Num("7"), Arr(<<Str("ID")>>),
                         Arr(<<Str("Name"), Num("7")>>), Arr(<<NullV>>)},
                objects \in ObjectsArgs :
                call = [op |-> "new", args |-> <<pk>> \o objects]
    /\ err = NoError
    /\ ret = This
    /\ ncalls = 0
    /\ peer = NoPeer
    /\ su = NoStringCall
    /\ ep = NoExportCall

New_Patch ==
    /\ kind = "patch" /\ ncalls = 0
    /\ LET r == PatchRequest_new(call.args[1])
       IN  metadata' = r.md /\ err' = r.err /\ ret' = r.ret
    /\ ncalls' = 1
    /\ UNCHANGED <<kind, call, peer, su, ep>>

New_Put ==
    /\ kind = "put" /\ ncalls = 0
    /\ LET r == PutRequest_new(call.args[1], Tail(call.args))
       IN  metadata' = r.md /\ err' = r.err /\ ret' = r.ret
    /\ ncalls' = 1
    /\ UNCHANGED <<kind, call, peer, su, ep>>

\* new PatchRequest().template(t), new PutRequest().pk(pk).objects(...objects)
Build ==
    /\ peer = NoPeer
    /\ LET r == IF kind = "patch"
                THEN PatchRequest_template(PatchRequest_constructor, call.args[1])
                ELSE LET r1 == PutRequest_pk(PutRequest_constructor,
                                             <<call.args[1]>>)
                     IN  IF r1.err # NoError THEN r1
                         ELSE PutRequest_objects(r1.md, Tail(call.args))
       IN  peer' = [kind |-> kind, metadata |-> r.md, shared |-> <<>>,
                    err |-> r.err]
    /\ UNCHANGED <<kind, metadata, call, err, ret, ncalls, su, ep>>

NextNew == New_Patch \/ New_Put \/ Build

SpecNew == InitNew /\ [][NextNew]_vars

(***************************************************************************)
(* StringUtility.  A string is the sequence of its characters.  The values *)
(* given to some() are records [t, s, i]: a string with its characters s,  *)
(* a RegExp with its source s and its ignoreCase flag i (a pattern of      *)
(* plain characters, without the g and y flags, so that test() keeps no    *)
(* position), an array with its elements s, null and undefined.            *)
(***************************************************************************)
\* the longest string given to truncate and to tail
MaxLen == 4

\* the largest number of elements of the array of tests given to some
MaxTests == 2

\* String.prototype.toLowerCase
ToLowerCase(chars) ==
    [k \in 1..Len(chars) |->
        CASE chars[k] = "A" -> "a" [] chars[k] = "B" -> "b" [] OTHER -> chars[k]]

\* the characters p occur somewhere in the characters chars
Occurs(p, chars) ==
    \E k \in 0..(Len(chars) - Len(p)) : SubSeq(chars, k + 1, k + Len(p)) = p

\* RegExp.prototype.test for a pattern of plain characters; test coerces
\* its argument to a string
RegExp_test(t, x) ==
    LET string == CASE x.t = "string" -> x.s
                    [] x.t = "null" -> <<"n", "u", "l", "l">>
                    [] OTHER -> <<"u", "n", "d", "e", "f", "i", "n", "e", "d">>
    IN  IF t.i THEN Occurs(ToLowerCase(t.s), ToLowerCase(string))
        ELSE Occurs(t.s, string)

\* the for loop of StringUtility.some, from the k-th test on
RECURSIVE SomeLoop(_, _, _, _)
SomeLoop(input, tests, insensitive, k) ==
    IF k > Len(tests) THEN [err |-> NoError, result |-> FALSE]
    ELSE LET t == tests[k] IN
         IF t.t = "string"
         THEN IF input = t THEN [err |-> NoError, result |-> TRUE]
              ELSE IF ~insensitive
                   THEN SomeLoop(input, tests, insensitive, k + 1)
              ELSE IF input.t # "string"
                   THEN [err |-> TypeError, result |-> Undef]
              ELSE IF ToLowerCase(input.s) = ToLowerCase(t.s)
                   THEN [err |-> NoError, result |-> TRUE]
              ELSE SomeLoop(input, tests, insensitive, k + 1)
         ELSE IF t.t = "regexp"
         THEN [err |-> NoError,
               result |-> RegExp_test(IF insensitive /\ t.i = FALSE
                                      THEN [t EXCEPT !.i = TRUE] ELSE t,
                                      input)]
         ELSE SomeLoop(input, tests, insensitive, k + 1)

StringUtility_some(input, test, insensitive) ==
    IF input.t = "undefined" THEN [err |-> NoError, result |-> FALSE]
    ELSE IF input.t = "null" /\ test.t = "null"
    THEN [err |-> NoError, result |-> TRUE]
    ELSE SomeLoop(input, IF test.t = "array" THEN test.s ELSE <<test>>,
                  insensitive, 1)

Ellipsis == <<".", ".", ".">>

\* input.substring(0, max).replace(/.{3}$/gi, '...'): the pattern matches
\* the last three characters, when there are three
StringUtility_truncate(input, max) ==
    IF Len(input) < max THEN input
    ELSE LET cut == SubSeq(input, 1, max)
         IN  IF Len(cut) < 3 THEN cut
             ELSE SubSeq(cut, 1, Len(cut) - 3) \o Ellipsis

\* input.substring(input.length - max).replace(/^.{3}/gi, '...'): the
\* pattern matches the first three characters, when there are three
StringUtility_tail(input, max) ==
    IF Len(input) < max THEN input
    ELSE LET cut == SubSeq(input, Len(input) - max + 1, Len(input))
         IN  IF Len(cut) < 3 THEN cut
             ELSE Ellipsis \o SubSeq(cut, 4, Len(cut))

\* a call about to be made: some(input, test, insensitive) with input a
\* string, null or undefined and test a string, a RegExp, null or an array
\* of at most MaxTests strings and RegExps; truncate(input, max) and
\* tail(input, max) with input of at most MaxLen characters
InitStrings ==
    LET words == {<<"a">>, <<"A">>, <<"a", "b">>, <<"b", "a">>}
        strings == {[t |-> "string", s |-> w, i |-> FALSE] : w \in words}
        null == [t |-> "null", s |-> <<>>, i |-> FALSE]
        undefined == [t |-> "undefined", s |-> <<>>, i |-> FALSE]
        values == strings \cup {[t |-> "regexp", s |-> w, i |-> f] :
                                   w \in {<<"a">>, <<"A">>, <<"b", "a">>},
                                   f \in BOOLEAN}
        arrays == UNION {[1..n -> values] : n \in 0..MaxTests}
        tests == values \cup {null}
                     \cup {[t |-> "array", s |-> l, i |-> FALSE] : l \in arrays}
        inputs == UNION {[1..n -> {"a", "b"}] : n \in 0..MaxLen}
        Pending(fn, input, arg, insensitive) ==
            [fn |-> fn, input |-> input, arg |-> arg,
             insensitive |-> insensitive, result |-> Undef, err |-> NoError,
             done |-> FALSE]
    IN  /\ kind = "patch"
        /\ metadata = PatchRequest_constructor
        /\ call = [op |-> "new", args |-> <<>>]
        /\ err = NoError
        /\ ret = This
        /\ ncalls = 0
        /\ peer = NoPeer
        /\ ep = NoExportCall
        /\ \/ \E input \in strings \cup {null, undefined}, test \in tests,
                 insensitive \in BOOLEAN :
                 su = Pending("some", input, test, insensitive)
           \/ \E fn \in {"truncate", "tail"}, input \in inputs,
                 max \in 0..(MaxLen + 1) :
                 su = Pending(fn, input, max, FALSE)

SU_some ==
    /\ su.fn = "some" /\ ~su.done
    /\ LET r == StringUtility_some(su.input, su.arg, su.insensitive)
       IN  su' = [su EXCEPT !.result = r.result, !.err = r.err, !.done = TRUE]
    /\ UNCHANGED <<kind, metadata, call, err, ret, ncalls, peer, ep>>

SU_truncate ==
    /\ su.fn = "truncate" /\ ~su.done
    /\ su' = [su EXCEPT !.result = StringUtility_truncate(su.input, su.arg),
                        !.done = TRUE]
    /\ UNCHANGED <<kind, metadata, call, err, ret, ncalls, peer, ep>>

SU_tail ==
    /\ su.fn = "tail" /\ ~su.done
    /\ su' = [su EXCEPT !.result = StringUtility_tail(su.input, su.arg),
                        !.done = TRUE]
    /\ UNCHANGED <<kind, metadata, call, err, ret, ncalls, peer, ep>>

NextStrings == SU_some \/ SU_truncate \/ SU_tail

SpecStrings == InitStrings /\ [][NextStrings]_vars

(***************************************************************************)
(* ExportProcessor.  A property definition is the record of its default,   *)
(* type and required properties, a text is a string value, and a text of   *)
(* several lines is the sequence of its lines (the code joins them with    *)
(* a line feed).  A Buffer is [t |-> "buffer", v, e] with e its bytes and  *)
(* v their base64 text.                                                    *)
(***************************************************************************)
ExportProcessor_makeJSDefault(definition) ==
    LET d == definition.default
        type == definition.type
        \* x === y: NaN is not equal to itself
        StrictEquals(x, y) == x = y /\ x # Num("NaN")
        Returns(text) == [err |-> NoError, result |-> Str(text)]
        Nothing_ == [err |-> NoError, result |-> Undef]
    IN  IF d.t # "undefined"
        THEN IF IsNull(d) THEN Returns("null")
             ELSE IF StrictEquals(d, Num("Infinity")) THEN Returns("Infinity")
             ELSE IF StrictEquals(d, Num("NaN")) THEN Returns("NaN")
             ELSE IF type \in {Str("Boolean"), Str("Number")}
             THEN Returns(d.v)
             ELSE IF type = Str("String") THEN Returns("'" \o d.v \o "'")
             ELSE IF type = Str("Date")
             THEN IF d.t = "date"
                  THEN Returns("new Date('2021-03-04T05:06:07.000Z')")
                  ELSE [err |-> TypeError, result |-> Undef]
             ELSE IF type = Str("Buffer")
             THEN IF d.t = "buffer" /\ Len(d.e) > 0
                  THEN Returns("Buffer.from('" \o d.v \o "', 'base64')")
                  ELSE Returns("Buffer.alloc(0)")
             ELSE Nothing_
        ELSE IF Truthy(definition.required)
        THEN CASE type = Str("Boolean") -> Returns("false")
               [] type = Str("Number") -> Returns("0")
               [] type = Str("String") -> Returns("''")
               [] type = Str("Date") -> Returns("new Date()")
               [] type = Str("Buffer") -> Returns("Buffer.alloc(0)")
               [] OTHER -> Nothing_
        ELSE Nothing_

\* indent.repeat(indentLevel)
RECURSIVE Repeat(_, _)
Repeat(indent, indentLevel) ==
    IF indentLevel = 0 THEN "" ELSE indent \o Repeat(indent, indentLevel - 1)

\* the lines of the text makeJSConfiguration returns
ExportProcessor_makeJSConfiguration(config, indentLevel, indentFirstLine) ==
    LET indent == "    "
        indentRoot == Repeat(indent, indentLevel)
        Line(level, key, val) ==
            indentRoot \o Repeat(indent, level) \o key \o ": '" \o val.v \o "'"
    IN  IF Truthy(config) /\ Truthy(config.resource)
        THEN <<(IF indentFirstLine THEN indentRoot ELSE "") \o "{">>
             \o <<Line(1, "resource", config.resource)>>
             \o (IF Truthy(config.name)
                 THEN <<Line(1, "name", config.name)>> ELSE <<>>)
             \o (IF Truthy(config.slug)
                 THEN <<Line(1, "slug", config.slug)>> ELSE <<>>)
             \o (IF Truthy(config.plural)
                 THEN <<indentRoot \o indent \o "plural: {">>
                      \o (IF Truthy(config.plural.name)
                          THEN <<Line(2, "name", config.plural.name)>>
                          ELSE <<>>)
                      \o (IF Truthy(config.plural.slug)
                          THEN <<Line(2, "name", config.plural.slug)>>
                          ELSE <<>>)
                      \o <<indentRoot \o indent \o "}">>
                 ELSE <<>>)
             \o <<indentRoot \o "}">>
        ELSE <<"{}">>

\* the lines of the text makeJSFunctionOrArrayFunctions returns; the
\* identifier obj is declared nowhere, so typeof obj is 'undefined'; the
\* text of a function value is its v field
ExportProcessor_makeJSFunctionOrArrayFunctions(func, indentLevel, indentFirstLine) ==
    LET indent == "   "
        indentRoot == Repeat(indent, indentLevel)
        obj == Undef
    IN  IF IsArray(func)
        THEN <<(IF indentFirstLine THEN indentRoot ELSE "") \o "{",
               indent \o "}">>
        ELSE IF TypeOf(obj) = "function" THEN <<func.v>>
        ELSE <<"null">>

\* a call about to be made: makeJSDefault(definition) with a default that
\* is absent, null, Infinity, NaN or a value of the declared type;
\* makeJSConfiguration(config, indentLevel, indentFirstLine) with config
\* undefined, null or an object with or without resource, name, slug and
\* plural; makeJSFunctionOrArrayFunctions(func, indentLevel,
\* indentFirstLine) with func a function, an array of functions or another
\* value
InitExport ==
    LET types == {"Boolean", "Number", "String", "Date", "Buffer", "Object"}
        ValuesOf(type) ==
            CASE type = "Boolean" -> {Bool(TRUE), Bool(FALSE)}
              [] type = "Number" -> {Num("0"), Num("5")}
              [] type = "String" -> {Str(""), Str("abc")}
              [] type = "Date" -> {DateV}
              [] type = "Buffer" ->
                    {[t |-> "buffer", v |-> "", e |-> <<>>],
                     [t |-> "buffer", v |-> "aGk=",
                      e |-> <<Num("104"), Num("105")>>]}
              [] OTHER -> {Object1}
        Pending(fn, args) ==
            [fn |-> fn, args |-> args, result |-> Undef, err |-> NoError,
             done |-> FALSE]
    IN  /\ kind = "patch"
        /\ metadata = PatchRequest_constructor
        /\ call = [op |-> "new", args |-> <<>>]
        /\ err = NoError
        /\ ret = This
        /\ ncalls = 0
        /\ peer = NoPeer
        /\ su = NoStringCall
        /\ \/ \E type \in types, required \in {Undef, Bool(TRUE), Bool(FALSE)} :
                 \E d \in {Undef, NullV, Num("Infinity"), Num("NaN")}
                              \cup ValuesOf(type) :
                    ep = Pending("makeJSDefault",
                                 <<[default |-> d, type |-> Str(type),
                                    required |-> required]>>)
           \/ \E indentLevel \in 0..1, indentFirstLine \in BOOLEAN :
                 \/ \E config \in {Undef, NullV} :
                       ep = Pending("makeJSConfiguration",
                                    <<config, indentLevel, indentFirstLine>>)
                 \/ \E resource \in {Undef, Str("themes")},
                       name \in {Undef, Str("Theme-API")},
                       slug \in {Undef, Str("theme-api")},
                       plural \in {Undef} \cup
                           {[t |-> "object", v |-> "plural", name |-> n,
                             slug |-> g] :
                               n \in {Undef, Str("Themes-API")},
                               g \in {Undef, Str("themes-api")}} :
                       ep = Pending("makeJSConfiguration",
                                    <<[t |-> "object", v |-> "config",
                                       resource |-> resource, name |-> name,
                                       slug |-> slug, plural |-> plural],
                                      indentLevel, indentFirstLine>>)
                 \/ \E func \in {Fn("v => v"), Arr(<<>>),
                                  Arr(<<Fn("v => v")>>), NullV, Undef,
                                  Str("abc")} :
                       ep = Pending("makeJSFunctionOrArrayFunctions",
                                    <<func, indentLevel, indentFirstLine>>)

EP_makeJSDefault ==
    /\ ep.fn = "makeJSDefault" /\ ~ep.done
    /\ LET r == ExportProcessor_makeJSDefault(ep.args[1])
       IN  ep' = [ep EXCEPT !.result = r.result, !.err = r.err, !.done = TRUE]
    /\ UNCHANGED <<kind, metadata, call, err, ret, ncalls, peer, su>>

EP_makeJSConfiguration ==
    /\ ep.fn = "makeJSConfiguration" /\ ~ep.done
    /\ ep' = [ep EXCEPT
                !.result = ExportProcessor_makeJSConfiguration(
                               ep.args[1], ep.args[2], ep.args[3]),
                !.done = TRUE]
    /\ UNCHANGED <<kind, metadata, call, err, ret, ncalls, peer, su>>

EP_makeJSFunctionOrArrayFunctions ==
    /\ ep.fn = "makeJSFunctionOrArrayFunctions" /\ ~ep.done
    /\ ep' = [ep EXCEPT
                !.result = ExportProcessor_makeJSFunctionOrArrayFunctions(
                               ep.args[1], ep.args[2], ep.args[3]),
                !.done = TRUE]
    /\ UNCHANGED <<kind, metadata, call, err, ret, ncalls, peer, su>>

NextExport ==
    EP_makeJSDefault \/ EP_makeJSConfiguration
        \/ EP_makeJSFunctionOrArrayFunctions

SpecExport == InitExport /\ [][NextExport]_vars

(***************************************************************************)
(* Properties of the request builders.                                     *)
(***************************************************************************)
\* the resource name of the request: metadata.from of a Delete, else metadata.to
ResourceName(k, md) == IF k = "delete" THEN md.from ELSE md.to

\* the step is a call (not a stuttering step)
IsCall == ncalls' = ncalls + 1

\* the first argument of the most recent call
FirstArg == Arg(call.args, 1)

\* the header entries of the metadata md (none while headers is no Map)
HeaderEntries(md) ==
    IF Get(md, "headers").t = "map" THEN Get(md, "headers").e ELSE <<>>

\* C1: a resource name set with to()/from() and a string is still that
\* string after the next call binds a valid model type with model(M).
C1_BindKeepsExplicitName ==
    [][(/\ call.op \in {"to", "from"}
        /\ err = NoError
        /\ FirstArg.t = "string"
        /\ IsCall
        /\ call'.op = "model"
        /\ Arg(call'.args, 1).t = "class"
        /\ err' = NoError)
       => ResourceName(kind, metadata') = FirstArg]_vars

\* C2: after clear() the shared fields are at their defaults: count is
\* false, model is null, and headers is null or an empty Map.
C2_ClearResetsSharedFields ==
    call.op = "clear" =>
        /\ Get(metadata, "count") = Bool(FALSE)
        /\ IsNull(Get(metadata, "model"))
        /\ IsNull(metadata.headers) \/ metadata.headers = MapV(<<>>)

\* the fields only the class of the request has, in the metadata md
KindFields(k, md) ==
    CASE k = "delete" -> <<md.all, md.where, md.from>>
      [] k = "patch" -> <<Get(md, "all"), md.template, md.where, md.to>>
      [] k = "put" -> <<md.pk, md.objects, md.to>>

\* the metadata of a request that was just constructed
Fresh(k) ==
    CASE k = "delete" -> DeleteRequest_constructor
      [] k = "patch" -> PatchRequest_constructor
      [] k = "put" -> PutRequest_constructor

\* C3: clear() returns the request, and after it the fields of the kind
\* equal those of a freshly constructed request (a Patch request has all
\* disabled again).
C3_ClearResetsKindFields ==
    call.op = "clear" =>
        /\ err = NoError
        /\ KindFields(kind, metadata) = KindFields(kind, Fresh(kind))

C5_WhereStoresTheInstance ==
    (call.op = "where" /\ Len(call.args) > 0) =>
        /\ FirstArg.t = "filter" => (err = NoError /\ metadata.where = FirstArg)
        /\ FirstArg.t = "null" => (err = NoError /\ IsNull(metadata.where))

\* C5 witness: where(f2) came after MaxCalls - 1 other calls and stored f2
C5_Witness ==
    /\ call = [op |-> "where", args |-> <<Filter2>>]
    /\ ncalls = MaxCalls
    /\ metadata.where.v = "f2"

\* the entry of the dictionary entries d that mentions the key k
Mention(d, k) == d[CHOOSE i \in 1..Len(d) : d[i].k = k]

\* the keys a header map can hold in this model
HeaderKeys ==
    {en.k : en \in {x \in ObjectEntrySet \cup MapEntrySet : x.k.t = "string"}}

\* C6: a successful headers(dictionary) with an object or a Map merges:
\* afterwards a key the dictionary gives a value holds that value, a key it
\* gives null or undefined has no entry, every other key is as it was
\* before, and no key has two entries.
C6_HeadersMerges ==
    [][(/\ IsCall
        /\ call'.op = "headers"
        /\ err' = NoError
        /\ Arg(call'.args, 1).t \in {"object", "map"})
       => LET d == call'.args[1].e
              old == HeaderEntries(metadata)
              new == HeaderEntries(metadata')
          IN  /\ metadata'.headers.t = "map"
              /\ \A i \in 1..Len(new) : new[i].k \in HeaderKeys
              /\ \A i, j \in 1..Len(new) : new[i].k = new[j].k => i = j
              /\ \A k \in HeaderKeys :
                    IF MapHas(d, k)
                    THEN IF Mention(d, k).val.t \in {"null", "undefined"}
                         THEN ~MapHas(new, k)
                         ELSE MapHas(new, k) /\ MapGet(new, k) = Mention(d, k).val
                    ELSE /\ MapHas(new, k) = MapHas(old, k)
                         /\ MapGet(new, k) = MapGet(old, k)]_vars

\* C6 witness: headers({a: 'hi'}) changed the value of the key a, set by an
\* earlier call, and left the later key b alone
C6_Witness ==
    /\ call = [op |-> "headers",
               args |-> <<Obj("dict", <<Entry(Str("a"), Str("hi"))>>)>>]
    /\ err = NoError
    /\ metadata.headers =
          MapV(<<Entry(Str("a"), Str("hi")), Entry(Str("b"), Num("1"))>>)

\* C7: headers(null) leaves metadata.headers an empty Map, and clear()
\* leaves it null.
C7_HeadersNullEmpties ==
    /\ (call.op = "headers" /\ Len(call.args) > 0 /\ IsNull(FirstArg)) =>
          (err = NoError /\ metadata.headers = MapV(<<>>))
    /\ call.op = "clear" => IsNull(metadata.headers)

\* C7 witness: headers(null) came after MaxCalls - 1 other calls and left an
\* empty Map
C7_Witness ==
    /\ call = [op |-> "headers", args |-> <<NullV>>]
    /\ ncalls = MaxCalls
    /\ metadata.headers = MapV(<<>>)

\* C8: headers() with no argument, with undefined or with a value that is
\* not null, a Map or an object throws an argument error; headers(null)
\* returns and leaves no header.
C8_HeadersRejectsNothing ==
    call.op = "headers" =>
        /\ FirstArg.t \in {"undefined", "number", "boolean", "string",
                           "function", "class"} => err = ArgumentError
        /\ (Len(call.args) > 0 /\ IsNull(FirstArg)) =>
              (err = NoError /\ HeaderEntries(metadata) = <<>>)

\* C8 witness: headers() with no argument threw
C8_Witness ==
    /\ call = [op |-> "headers", args |-> <<>>]
    /\ err = ArgumentError

\* the key is neither a string nor null nor undefined
BadKey(k) == k.t \notin {"string", "null", "undefined"}

\* C9: headers(map) throws a key error when the Map has a key that is
\* neither a string nor null nor undefined; otherwise it returns, entries
\* with a null or undefined key are not stored, and the entries with a
\* string key are applied.
C9_HeadersKeyError ==
    (call.op = "headers" /\ FirstArg.t = "map") =>
        LET d == FirstArg.e
            h == HeaderEntries(metadata)
        IN  IF \E i \in 1..Len(d) : BadKey(d[i].k)
            THEN err = KeyError
            ELSE /\ err = NoError
                 /\ \A i \in 1..Len(h) : h[i].k.t = "string"
                 /\ \A i \in 1..Len(d) :
                       (d[i].k.t = "string" /\ d[i].val.t \notin {"null", "undefined"})
                           => MapGet(h, d[i].k) = d[i].val

\* C9 witness: a Map with a null key before the key 123 made headers throw
C9_Witness ==
    /\ call = [op |-> "headers",
               args |-> <<MapV(<<Entry(NullV, Bool(TRUE)),
                                 Entry(Num("123"), Bool(TRUE))>>)>>]
    /\ err = KeyError

\* C10: to(name) of Patch and Put and from(name) of Delete store a string,
\* reset the name to null on null, and for any other value throw an
\* argument error and leave the name as it was.
C10_NameSetter ==
    [][(IsCall /\ call'.op \in {"to", "from"}) =>
        LET name == Arg(call'.args, 1) IN
        CASE name.t = "string" ->
                err' = NoError /\ ResourceName(kind, metadata') = name
          [] name.t = "null" ->
                err' = NoError /\ IsNull(ResourceName(kind, metadata'))
          [] OTHER ->
                /\ err' = ArgumentError
                /\ ResourceName(kind, metadata') = ResourceName(kind, metadata)]_vars

\* C10 witness: to(1312312) threw on a Patch request named 'someresource'
C10_Witness ==
    /\ kind = "patch"
    /\ call = [op |-> "to", args |-> <<Num("1312312")>>]
    /\ err = ArgumentError
    /\ metadata.to = Str("someresource")

\* the values that coerce to false: 0, false, null, '' and undefined
Falsy == {Num("0"), Bool(FALSE), NullV, Str(""), Undef}

\* C11: count is false on a new request; count() with no argument or with
\* undefined sets metadata.count to true; count(x) with any other argument
\* sets it to true when x is truthy and to false when x is 0, false, null
\* or ''.
C11_CountCoercion ==
    /\ call.op = "new" => metadata.count = Bool(FALSE)
    /\ call.op = "count" =>
          /\ err = NoError
          /\ Get(metadata, "count") =
                IF IsUndefined(FirstArg) THEN Bool(TRUE)
                ELSE Bool(FirstArg \notin Falsy)

\* C11 witness: count() with no argument enabled the flag of a Delete request
C11_Witness ==
    /\ kind = "delete"
    /\ call = [op |-> "count", args |-> <<>>]
    /\ metadata.count = Bool(TRUE)

\* C12: all is false on a new Patch or Delete request; all() with no
\* argument sets metadata.all to true; all(x) with an argument, an explicit
\* undefined included, sets it to the boolean coercion of x.
C12_AllCoercion ==
    /\ (call.op = "new" /\ kind \in {"patch", "delete"}) =>
          metadata.all = Bool(FALSE)
    /\ call.op = "all" =>
          /\ err = NoError
          /\ Get(metadata, "all") =
                IF Len(call.args) = 0 THEN Bool(TRUE)
                ELSE Bool(call.args[1] \notin Falsy)

\* C12 witness: all(undefined) disabled the flag of a Delete request
C12_Witness ==
    /\ kind = "delete"
    /\ call = [op |-> "all", args |-> <<Undef>>]
    /\ metadata.all = Bool(FALSE)
    /\ ncalls = MaxCalls

\* C13: template(t) of a Patch request stores t when t is an object that
\* is no array, sets the template to null when t is null, and for every
\* other argument (number, boolean, string, array, undefined) throws an
\* argument error and leaves the stored template as it was.
C13_TemplateAcceptsObjects ==
    [][(IsCall /\ call'.op = "template") =>
        LET t == Arg(call'.args, 1) IN
        CASE t.t \in {"object", "date", "map", "filter"} ->
                err' = NoError /\ metadata'.template = t
          [] t.t = "null" ->
                err' = NoError /\ IsNull(metadata'.template)
          [] OTHER ->
                /\ err' = ArgumentError
                /\ metadata'.template = metadata.template]_vars

\* C13 witness: template([1, 2]) threw on a request holding a template
C13_Witness ==
    /\ kind = "patch"
    /\ call = [op |-> "template", args |-> <<Arr(<<Num("1"), Num("2")>>)>>]
    /\ err = ArgumentError
    /\ metadata.template = Object1

\* the builder methods of the three request classes
BuilderMethods ==
    {"model", "count", "all", "template", "where", "to", "from", "pk",
     "objects", "clear", "headers", "meta"}

\* C14: a builder method of a Delete, Patch or Put request that does not
\* throw returns the request it was called on.
C14_BuildersReturnThis ==
    (call.op \in BuilderMethods /\ err = NoError) => ret.t = "this"

\* C14 witness: meta({engine: 'fast'}) merged the setting into a Patch
\* request and returned the request
C14_Witness ==
    /\ kind = "patch"
    /\ call = [op |-> "meta", args |-> <<Settings1>>]
    /\ err = NoError
    /\ ret.t = "this"
    /\ Get(metadata, "engine") = Str("fast")

\* the resource name each model type resolves to: BaseThemeModel configures
\* resource 'themes' ahead of its name, slug and plural forms; TestModel
\* configures nothing and falls back on its pluralized class name
ExpectedResource(modelType) ==
    IF modelType = BaseThemeModel THEN Str("themes") ELSE Str("TestModels")

ExpectedPk(modelType) ==
    IF modelType = BaseThemeModel THEN <<Str("ID")>> ELSE <<>>

NoDuplicates(a) == \A i, j \in 1..Len(a) : a[i] = a[j] => i = j

\* the elements of the sequence a, as a set
Elements(a) == {a[i] : i \in 1..Len(a)}

\* the place of the first occurrence of x in the sequence a
FirstIndex(a, x) == CHOOSE i \in 1..Len(a) : a[i] = x /\ \A j \in 1..(i - 1) : a[j] # x

\* new is old followed by the values of given that satisfy Keep and are
\* not in old, each once, in the order of their first occurrence in given
AppendsNew(old, new, given, Keep(_)) ==
    /\ Len(new) >= Len(old)
    /\ SubSeq(new, 1, Len(old)) = old
    /\ NoDuplicates(new)
    /\ Elements(new) = Elements(old) \cup {x \in Elements(given) : Keep(x)}
    /\ \A i, j \in (Len(old) + 1)..Len(new) :
          i < j => FirstIndex(given, new[i]) < FirstIndex(given, new[j])

\* a payload entry objects() stores
IsPayloadObject(x) == x.t \in {"object", "date", "map", "filter"}

\* C17: metadata.objects of a Put request holds only objects and none
\* twice.  objects(null) empties the list; a call with a number, string or
\* boolean among its entries (nested arrays are flattened) throws an
\* argument error; any other call returns and appends the objects it names
\* that the list lacks, in the order of their first occurrence.
C17_ObjectsDeduplicates ==
    [][(IsCall /\ kind = "put") =>
        LET old == metadata.objects.e
            new == metadata'.objects.e
            given == FlatInfinity(call'.args)
        IN  /\ \A i \in 1..Len(new) : IsPayloadObject(new[i])
            /\ NoDuplicates(new)
            /\ call'.op = "objects" =>
                  IF call'.args = <<NullV>>
                  THEN err' = NoError /\ new = <<>>
                  ELSE IF \E x \in Elements(given) :
                            x.t \in {"number", "string", "boolean"}
                  THEN err' = ArgumentError
                  ELSE /\ err' = NoError
                       /\ AppendsNew(old, new, given, IsPayloadObject)]_vars

\* C17 witness: objects([o2, undefined, [o1]]) on a request that held o1
\* appended o2 alone
C17_Witness ==
    /\ kind = "put"
    /\ call = [op |-> "objects",
               args |-> <<Arr(<<Object2, Undef, Arr(<<Object1>>)>>)>>]
    /\ err = NoError
    /\ metadata.objects = Arr(<<Object1, Object2>>)

\* a primary-key name pk() stores
IsKeyName(x) == x.t = "string" /\ x.v # ""

\* C18: metadata.pk of a Put request holds only non-empty strings and none
\* twice.  pk(null) empties the list; a call with a value that is neither
\* a string nor null among its arguments (one level of arrays is
\* flattened) throws an argument error; any other call returns and appends
\* the non-empty names the list lacks, in the order of their first
\* occurrence.
C18_PkOrderedNames ==
    [][(IsCall /\ kind = "put") =>
        LET old == metadata.pk.e
            new == metadata'.pk.e
            given == Flat(call'.args)
        IN  /\ \A i \in 1..Len(new) : IsKeyName(new[i])
            /\ NoDuplicates(new)
            /\ call'.op = "pk" =>
                  IF call'.args = <<NullV>>
                  THEN err' = NoError /\ new = <<>>
                  ELSE IF \E x \in Elements(given) : x.t \notin {"string", "null"}
                  THEN err' = ArgumentError
                  ELSE /\ err' = NoError
                       /\ AppendsNew(old, new, given, IsKeyName)]_vars

\* C18 witness: pk(['Name', '']) on a request whose pk held ID appended
\* Name and skipped the empty string
C18_Witness ==
    /\ kind = "put"
    /\ call = [op |-> "pk", args |-> <<Arr(<<Str("Name"), Str("")>>)>>]
    /\ err = NoError
    /\ metadata.pk = Arr(<<Str("ID"), Str("Name")>>)

C20_NoAllKeyUnlessCalled ==
    (kind = "patch" /\ call.op = "toJSON" /\ ncalls = 1) =>
        "all" \notin DOMAIN JSON_parse_stringify(ret.j)

\* the storage target the test's TestModel declares for a property: a is
\* 'aaa', b is {target: 'bbbb'}, c is {target: 'c'}
StorageTarget(modelType, property) ==
    IF modelType # TestModel THEN property
    ELSE CASE property = "a" -> "aaa"
           [] property = "b" -> "bbbb"
           [] OTHER -> property

\* C21: when model(M) binds a model to a Patch request that has where
\* conditions, every condition's property name becomes the storage target
\* M declares for it; operators, values, logic and order stay.
C21_BindTranslatesWhere ==
    [][(/\ kind = "patch"
        /\ Get(metadata, "where").t = "filter"
        /\ IsCall
        /\ call'.op = "model"
        /\ Arg(call'.args, 1) = TestModel
        /\ err' = NoError)
       => /\ metadata'.where.t = "filter"
          /\ metadata'.where.e =
                [i \in 1..Len(metadata.where.e) |->
                    [metadata.where.e[i] EXCEPT
                        !.property = StorageTarget(TestModel, @)]]]_vars

\* C22: where(text) of a Patch request with a filter written as text does
\* not throw and stores a Filter.
C22_WhereParsesText ==
    (kind = "patch" /\ call.op = "where" /\ FirstArg.t = "string") =>
        (err = NoError /\ Get(metadata, "where").t = "filter")

\* the metadata properties the standard methods of a request of class k manage
Managed(k) ==
    CASE k = "delete" -> {"all", "where", "from", "count", "model", "headers"}
      [] k = "patch" ->
            {"all", "template", "where", "to", "count", "model", "headers"}
      [] k = "put" -> {"pk", "objects", "to", "count", "model", "headers"}

\* C23: meta(m) with m naming a property a standard method manages throws
\* and changes no metadata property, and no meta call changes the value of
\* such a property.
C23_MetaKeepsStandard ==
    [][(IsCall /\ call'.op = "meta") =>
        LET k == IF call'.on = "self" THEN kind ELSE peer.kind
            old == IF call'.on = "self" THEN metadata ELSE peer.metadata
            new == IF call'.on = "self" THEN metadata' ELSE peer'.metadata
        IN  /\ ObjectKeys(call'.args[1]) \cap Managed(k) # {} =>
                  (err' # NoError /\ new = old)
            /\ \A p \in Managed(k) : Get(new, p) = Get(old, p)]_vars

\* C24: meta(null) returns and removes every property that is not a
\* standard field of the request, and every standard field the request
\* had is still there with the value it had.
C24_MetaNullKeepsStandard ==
    [][(IsCall /\ call'.op = "meta" /\ call'.args = <<NullV>>) =>
        /\ err' = NoError
        /\ DOMAIN metadata' \subseteq Managed(kind)
        /\ \A p \in Managed(kind) \cap DOMAIN metadata :
              p \in DOMAIN metadata' /\ metadata'[p] = metadata[p]]_vars

\* C25: model(null) returns and leaves metadata.model null and every other
\* metadata property as it was before the call.
C25_UnbindKeepsTheRest ==
    [][(IsCall /\ call'.op = "model" /\ call'.args = <<NullV>>) =>
        /\ err' = NoError
        /\ DOMAIN metadata' = DOMAIN metadata \cup {"model"}
        /\ IsNull(metadata'.model)
        /\ \A p \in DOMAIN metadata \ {"model"} : metadata'[p] = metadata[p]]_vars

\* C25 witness: model(null) removed the model of a Patch request and left
\* the name 'themes' an earlier model(BaseThemeModel) had filled in
C25_Witness ==
    /\ kind = "patch"
    /\ call = [op |-> "model", args |-> <<NullV>>]
    /\ err = NoError
    /\ IsNull(Get(metadata, "model"))
    /\ metadata.to = Str("themes")

\* C26: model(x) with x neither null nor a model type (no argument,
\* undefined, a number, a boolean, a string) throws an argument error and
\* leaves the metadata, model, resource name and pk included, as it was.
C26_BindRejectsOtherInputs ==
    [][(/\ IsCall
        /\ call'.op = "model"
        /\ Arg(call'.args, 1).t \in {"undefined", "number", "boolean", "string"})
       => (err' = ArgumentError /\ metadata' = metadata)]_vars

\* C26 witness: model('abc') threw on a Put request bound to BaseThemeModel
C26_Witness ==
    /\ kind = "put"
    /\ call = [op |-> "model", args |-> <<Str("abc")>>]
    /\ err = ArgumentError
    /\ metadata.model = BaseThemeModel
    /\ metadata.pk = Arr(<<Str("ID")>>)

\* C30: a builder call that throws leaves the metadata of the request
\* exactly as it was before the call.
C30_ErrorsAreAtomic ==
    [][(IsCall /\ err' # NoError) => metadata' = metadata]_vars

\* C27: a builder call on one request never changes the metadata (header
\* map, pk list and objects list included) of another request.
C27_NothingShared ==
    [][IsCall => IF call'.on = "self"
                 THEN peer'.metadata = peer.metadata
                 ELSE metadata' = metadata]_vars

\* a single test value t matches the string input
Matches(input, t, insensitive) ==
    \/ t.t = "string" /\ (\/ t.s = input.s
                          \/ insensitive /\ ToLowerCase(t.s) = ToLowerCase(input.s))
    \/ t.t = "regexp" /\ IF insensitive \/ t.i
                         THEN Occurs(ToLowerCase(t.s), ToLowerCase(input.s))
                         ELSE Occurs(t.s, input.s)

\* C28: some(input, test) is true exactly when the string input matches at
\* least one of the tests, a single one or an array of them in any order.
C28_SomeMatchesAny ==
    (su.fn = "some" /\ su.done /\ su.input.t = "string") =>
        LET tests == IF su.arg.t = "array" THEN su.arg.s ELSE <<su.arg>>
        IN  /\ su.err = NoError
            /\ su.result = (\E k \in 1..Len(tests) :
                               Matches(su.input, tests[k], su.insensitive))

\* C29: truncate and tail return an input no longer than max as it is, and
\* cut a longer one to exactly max characters that end (truncate) or begin
\* (tail) with '...' when max is 3 or more.
C29_TruncatesOnlyIfNecessary ==
    (su.fn \in {"truncate", "tail"} /\ su.done) =>
        IF Len(su.input) <= su.arg THEN su.result = su.input
        ELSE /\ Len(su.result) = su.arg
             /\ su.arg >= 3 =>
                  IF su.fn = "truncate"
                  THEN SubSeq(su.result, su.arg - 2, su.arg) = Ellipsis
                  ELSE SubSeq(su.result, 1, 3) = Ellipsis

\* C31: in every reachable state the metadata of the request has the keys
\* count, all (Patch, Delete), the resource name, where (Patch, Delete) and
\* headers; count and all are booleans, the name is null or a string,
\* where is null or a Filter and headers is null or a Map.
C31_MetadataShape ==
    /\ {"count", "headers", IF kind = "delete" THEN "from" ELSE "to"}
           \subseteq DOMAIN metadata
    /\ metadata.count.t = "boolean"
    /\ metadata.headers.t \in {"null", "map"}
    /\ ResourceName(kind, metadata).t \in {"null", "string"}
    /\ kind \in {"patch", "delete"} =>
          /\ {"all", "where"} \subseteq DOMAIN metadata
          /\ metadata.all.t = "boolean"
          /\ metadata.where.t \in {"null", "filter"}

\* C32: every key of metadata.headers is a string and none of its values
\* is null or undefined, after headers calls that returned or threw.
C32_HeaderMapInvariant ==
    LET h == HeaderEntries(metadata)
    IN  \A i \in 1..Len(h) :
           h[i].k.t = "string" /\ h[i].val.t \notin {"null", "undefined"}

\* C32 witness: headers(map) stored the entry of 'a' and then threw at the
\* key 123
C32_Witness ==
    /\ call = [op |-> "headers",
               args |-> <<MapV(<<Entry(Str("a"), Num("1")),
                                 Entry(Num("123"), Bool(TRUE))>>)>>]
    /\ err = KeyError
    /\ HeaderEntries(metadata) = <<Entry(Str("a"), Num("1"))>>

\* the metadata property a plain setter writes
OwnField(op) ==
    IF op \in {"to", "from"} THEN (IF kind = "delete" THEN "from" ELSE "to")
    ELSE op

\* C33: count, all, where, to/from, template, headers, pk and objects
\* change no metadata property but their own, whether they return or throw.
C33_SettersKeepTheRest ==
    [][(/\ IsCall
        /\ call'.op \in {"count", "all", "where", "to", "from", "template",
                         "headers", "pk", "objects"})
       => \A p \in (DOMAIN metadata \cup DOMAIN metadata') \ {OwnField(call'.op)} :
             /\ p \in DOMAIN metadata \cap DOMAIN metadata'
             /\ metadata'[p] = metadata[p]]_vars

\* C33 witness: all() turned all on and left the Filter where(f) had stored
C33_Witness ==
    /\ kind = "patch"
    /\ call = [op |-> "all", args |-> <<>>]
    /\ metadata.all = Bool(TRUE)
    /\ metadata.where = Filter1

\* the header map of the metadata md is the Map the caller holds
HoldsCallersMap(md) ==
    Get(md, "headers").t = "map" /\ Get(md, "headers").v = "shared"

C35_NewIsBuilderCalls ==
    (ncalls = 1 /\ peer # NoPeer /\ call.args[1] # Undef) =>
        /\ err = peer.err
        /\ err = NoError => metadata = peer.metadata

\* C36: makeJSDefault(definition) of a definition with one of the types
\* Boolean, Number, String, Date, Buffer returns a string when the default
\* is present (null included), the zero value of the type when the default
\* is absent and required is set, and undefined otherwise.
C36_DefaultRule ==
    (/\ ep.fn = "makeJSDefault"
     /\ ep.done
     /\ ep.args[1].type.v \in {"Boolean", "Number", "String", "Date", "Buffer"})
    => LET definition == ep.args[1] IN
       /\ ep.err = NoError
       /\ IF definition.default.t # "undefined" THEN ep.result.t = "string"
          ELSE IF Truthy(definition.required)
          THEN ep.result =
                 CASE definition.type.v = "Boolean" -> Str("false")
                   [] definition.type.v = "Number" -> Str("0")
                   [] definition.type.v = "String" -> Str("''")
                   [] definition.type.v = "Date" -> Str("new Date()")
                   [] definition.type.v = "Buffer" -> Str("Buffer.alloc(0)")
          ELSE ep.result = Undef

\* the number of lines of the text that are the entry key: 'val', at any
\* depth of indentation
Entries(lines, key, val) ==
    Cardinality({i \in 1..Len(lines) :
                    \E n \in 0..3 :
                       lines[i] = Repeat("    ", n) \o key \o ": '" \o val \o "'"})

\* C37: makeJSConfiguration of a config with resource, name, slug,
\* plural.name and plural.slug returns a text with exactly one entry for
\* each of them, each under its own key, and '{}' for a config without
\* resource.
C37_EveryFieldUnderItsKey ==
    (ep.fn = "makeJSConfiguration" /\ ep.done) =>
        LET config == ep.args[1] IN
        IF ~Truthy(config) \/ ~Truthy(config.resource) THEN ep.result = <<"{}">>
        ELSE (/\ Truthy(config.name)
              /\ Truthy(config.slug)
              /\ Truthy(config.plural)
              /\ Truthy(config.plural.name)
              /\ Truthy(config.plural.slug))
             => /\ Entries(ep.result, "resource", config.resource.v) = 1
                /\ Entries(ep.result, "name", config.name.v) = 1
                /\ Entries(ep.result, "slug", config.slug.v) = 1
                /\ Entries(ep.result, "name", config.plural.name.v) = 1
                /\ Entries(ep.result, "slug", config.plural.slug.v) = 1

\* C38: makeJSFunctionOrArrayFunctions(func) returns the source text of
\* func when func is a function, and returns 'null' only when func is
\* neither a function nor an array.
C38_FunctionText ==
    (ep.fn = "makeJSFunctionOrArrayFunctions" /\ ep.done) =>
        LET func == ep.args[1] IN
        /\ func.t = "function" => ep.result = <<func.v>>
        /\ ep.result = <<"null">> => func.t \notin {"function", "array"}

====
